---- MODULE Spec2Model ----
(***************************************************************************)
(* Model of LRUCache<T, CAP> (src/src/lib.rs): a fixed-capacity LRU cache  *)
(* kept as a doubly linked list of arena indices inside an ArrayVec.       *)
(*                                                                         *)
(* Arena indices are 0-based as in the source; the arena is a TLA+         *)
(* sequence, so slot i of the source is entries[i + 1] here.  Every        *)
(* indexing entries[i] of the source panics when i is not below the number *)
(* of occupied slots; the model keeps that as status = "panicked".  A scan *)
(* that would never stop is kept as status = "hung".                       *)
(***************************************************************************)
EXTENDS Integers, Sequences, FiniteSets, TLC

\* ---------------------------------------------------------------- bounds
\* Largest capacity CAP (the const generic) the model instantiates; 0 included.
MaxCap == 3
\* Values stored are 1..MaxVal.  The cache never inspects a value of T, only the
\* caller's closures do; with two values and every subset of them as a closure, each
\* pattern of accepted and rejected entries occurs in every list the cache can hold.
MaxVal == 2
\* Number of leading insert calls whose arguments are remembered in `inserted`.
MaxInserts == 5

Caps == 0..MaxCap
Values == 1..MaxVal
\* Predicates FnMut(&T) -> bool handed to touch / fetch: the set of values they accept.
Preds == SUBSET Values
\* The derived result of a lookup closure is Some(x * Factor) (tests/lru-rs.rs: *x * 2).
Factor == 2
\* What a lookup closure gives where it returns None (no x * Factor is 0).
NoResult == 0
\* Closures FnMut(&T) -> Option<R> handed to lookup: value -> result, NoResult for None.
LookupFn(S, k) == [x \in Values |-> IF x \in S THEN x * k ELSE NoResult]
LookupFns == {LookupFn(S, Factor) : S \in Preds}

\* Option<X>: None is the empty sequence, Some(x) the one-element sequence.
None == <<>>
Some(x) == <<x>>

VARIABLES
    cap,        \* CAP, the const generic parameter of this instantiation
    entries,    \* LRUCache.entries: the occupied arena slots, in index order
    head,       \* LRUCache.head
    tail,       \* LRUCache.tail
    length,     \* LRUCache.length
    status,     \* "running", "panicked" (an assert or an index check failed), "hung"
    op,         \* the last call: [name, pre, hit] (see Call)
    ret,        \* what the last call returned
    inserted,   \* arguments of the insert calls so far, while insertsOnly
    insertsOnly, \* TRUE while only insert was called since construction (at most MaxInserts times)
    recency,    \* history: the arena slots of the live entries, latest inserted or promoted first
    abstract    \* history: the same calls run on a plain list of values (see AbsInsert, AbsTouch)

vars == <<cap, entries, head, tail, length, status, op, ret, inserted, insertsOnly, recency, abstract>>

\* ------------------------------------------------------------ the struct
Entry(val, prev, next) == [val |-> val, prev |-> prev, next |-> next]

\* The cache as one value, with the control status of the call working on it.
self == [entries |-> entries, head |-> head, tail |-> tail, length |-> length, status |-> status]

Default == [entries |-> <<>>, head |-> 0, tail |-> 0, length |-> 0, status |-> "running"]

\* entries[i] is in bounds
InBounds(c, i) == i < Len(c.entries)
Panic(c) == [c EXCEPT !.status = "panicked"]
Running(c) == c.status = "running"

len(c) == c.length

is_empty(c) == c.length = 0

\* clear that empties the arena and the count but leaves head and tail.
clear_keeps_ends(c) == [c EXCEPT !.entries = <<>>, !.length = 0]

clear(c) == [c EXCEPT !.entries = <<>>, !.head = 0, !.tail = 0, !.length = 0]

\* ------------------------------------------------------------- the scan
\* iter_mut that forgets an empty cache has nothing to yield.
iter_mut_never_done(c) == [pos |-> c.head, done |-> FALSE]

iter_mut(c) == [pos |-> c.head, done |-> is_empty(c)]

\* next that does not stop after yielding tail.
IterMut_next_past_tail(c, it) ==
    IF it.done THEN [kind |-> "None", index |-> 0, val |-> 0, it |-> it]
    ELSE IF ~InBounds(c, it.pos) THEN [kind |-> "panic", index |-> 0, val |-> 0, it |-> it]
    ELSE LET entry == c.entries[it.pos + 1]
         IN  [kind |-> "Some", index |-> it.pos, val |-> entry.val,
              it |-> [pos |-> entry.next, done |-> FALSE]]

\* One call of IterMut::next: kind "None", "Some" (index, val) or "panic".  The
\* &mut it hands out is read (by the closure, or cloned) before next is called again
\* and never after, so a scan is a sequence of reads of the arena.
IterMut_next(c, it) ==
    IF it.done THEN [kind |-> "None", index |-> 0, val |-> 0, it |-> it]
    ELSE IF ~InBounds(c, it.pos) THEN [kind |-> "panic", index |-> 0, val |-> 0, it |-> it]
    ELSE LET entry == c.entries[it.pos + 1]
         IN  [kind |-> "Some", index |-> it.pos, val |-> entry.val,
              it |-> [pos |-> entry.next, done |-> (it.pos = c.tail)]]

\* Iterator::collect over the scan, each item as (index, value); acc holds the items
\* yielded so far.  The scan reads an unchanging cache, so once it has yielded more
\* items than there are slots it is in a cycle and never stops.
RECURSIVE collect(_, _, _, _)
collect(c, it, fuel, acc) ==
    LET r == IterMut_next(c, it)
    IN  IF r.kind = "None" THEN [out |-> acc, status |-> "running"]
        ELSE IF r.kind = "panic" THEN [out |-> acc, status |-> "panicked"]
        ELSE IF fuel = 0 THEN [out |-> acc, status |-> "hung"]
        ELSE collect(c, r.it, fuel - 1, Append(acc, [index |-> r.index, val |-> r.val]))

scan(c) == collect(c, iter_mut(c), Len(c.entries), <<>>)

\* the values, and the arena slots, of the items of a scan
Values_of(out) == [k \in 1..Len(out) |-> out[k].val]
Slots_of(out) == [k \in 1..Len(out) |-> out[k].index]

\* items(): the values in scan order (cloned).
items(c) ==
    LET s == scan(c)
    IN  [out |-> Values_of(s.out), status |-> s.status]

\* find that keeps scanning after a match and gives the last entry pred accepts.
RECURSIVE find_last_match(_, _, _, _)
find_last_match(c, it, pred, fuel) ==
    LET r == IterMut_next(c, it)
    IN  IF r.kind = "None" THEN [kind |-> "None", index |-> 0, evals |-> <<>>]
        ELSE IF r.kind = "panic" THEN [kind |-> "panic", index |-> 0, evals |-> <<>>]
        ELSE IF fuel = 0 THEN [kind |-> "hung", index |-> 0, evals |-> <<r.index>>]
        ELSE LET rest == find_last_match(c, r.it, pred, fuel - 1)
                 here == IF r.val \in pred /\ rest.kind = "None"
                         THEN [rest EXCEPT !.kind = "Some", !.index = r.index]
                         ELSE rest
             IN  [here EXCEPT !.evals = <<r.index>> \o @]

\* Iterator::find over the scan: stops at the first entry pred accepts.  evals lists
\* the slots of the entries pred was called on, in call order.
RECURSIVE find(_, _, _, _)
find(c, it, pred, fuel) ==
    LET r == IterMut_next(c, it)
    IN  IF r.kind = "None" THEN [kind |-> "None", index |-> 0, evals |-> <<>>]
        ELSE IF r.kind = "panic" THEN [kind |-> "panic", index |-> 0, evals |-> <<>>]
        ELSE IF r.val \in pred THEN [kind |-> "Some", index |-> r.index, evals |-> <<r.index>>]
        ELSE IF fuel = 0 THEN [kind |-> "hung", index |-> 0, evals |-> <<r.index>>]
        ELSE [find(c, r.it, pred, fuel - 1) EXCEPT !.evals = <<r.index>> \o @]

\* front that reads the slot at tail.
front_from_tail(c) == IF InBounds(c, c.tail) THEN Some(c.entries[c.tail + 1].val) ELSE None

front(c) == IF InBounds(c, c.head) THEN Some(c.entries[c.head + 1].val) ELSE None

\* The handle front_mut returns is a reference to the slot at head: [slot, val].
front_mut(c) ==
    IF InBounds(c, c.head) THEN Some([slot |-> c.head, val |-> c.entries[c.head + 1].val])
    ELSE None

\* push_front that leaves the old head's prev link as it was.
push_front_no_prev(c, index) ==
    IF ~Running(c) THEN c
    ELSE IF Len(c.entries) = 1 THEN [c EXCEPT !.tail = index, !.head = index]
    ELSE IF ~InBounds(c, index) THEN Panic(c)
    ELSE [c EXCEPT !.entries[index + 1].next = c.head, !.head = index]

\* ------------------------------------------------------ list maintenance
push_front(c, index) ==
    IF ~Running(c) THEN c
    ELSE IF Len(c.entries) = 1 THEN [c EXCEPT !.tail = index, !.head = index]
    ELSE IF ~InBounds(c, index) THEN Panic(c)
    ELSE LET c1 == [c EXCEPT !.entries[index + 1].next = c.head]
         IN  IF ~InBounds(c1, c1.head) THEN Panic(c1)
             ELSE [c1 EXCEPT !.entries[c1.head + 1].prev = index, !.head = index]

\* pop_back that leaves tail where it was.
pop_back_keeps_tail(c) ==
    LET old_tail == c.tail
    IN  IF ~InBounds(c, old_tail) THEN [cache |-> Panic(c), ret |-> old_tail]
        ELSE [cache |-> c, ret |-> old_tail]

\* pop_back: [cache, ret] with ret the old tail.
pop_back(c) ==
    LET old_tail == c.tail
    IN  IF ~InBounds(c, old_tail) THEN [cache |-> Panic(c), ret |-> old_tail]
        ELSE [cache |-> [c EXCEPT !.tail = c.entries[old_tail + 1].prev], ret |-> old_tail]

\* remove that never moves tail back when the tail entry is unlinked.
remove_keeps_tail(c, index) ==
    IF ~Running(c) THEN c
    ELSE IF ~(c.length > 0) THEN Panic(c)
    ELSE IF ~InBounds(c, index) THEN Panic(c)
    ELSE LET prev == c.entries[index + 1].prev
             next == c.entries[index + 1].next
             c1 == IF index = c.head THEN [c EXCEPT !.head = next]
                   ELSE IF ~InBounds(c, prev) THEN Panic(c)
                   ELSE [c EXCEPT !.entries[prev + 1].next = next]
             c2 == IF ~Running(c1) THEN c1
                   ELSE IF index = c1.tail THEN c1
                   ELSE IF ~InBounds(c1, next) THEN Panic(c1)
                   ELSE [c1 EXCEPT !.entries[next + 1].prev = prev]
         IN  IF ~Running(c2) THEN c2 ELSE [c2 EXCEPT !.length = @ - 1]

\* remove that patches the next link of the node before, but not the prev link of
\* the node after.
remove_no_prev_patch(c, index) ==
    IF ~Running(c) THEN c
    ELSE IF ~(c.length > 0) THEN Panic(c)
    ELSE IF ~InBounds(c, index) THEN Panic(c)
    ELSE LET prev == c.entries[index + 1].prev
             next == c.entries[index + 1].next
             c1 == IF index = c.head THEN [c EXCEPT !.head = next]
                   ELSE IF ~InBounds(c, prev) THEN Panic(c)
                   ELSE [c EXCEPT !.entries[prev + 1].next = next]
             c2 == IF ~Running(c1) THEN c1
                   ELSE IF index = c1.tail THEN [c1 EXCEPT !.tail = prev]
                   ELSE c1
         IN  IF ~Running(c2) THEN c2 ELSE [c2 EXCEPT !.length = @ - 1]

remove(c, index) ==
    IF ~Running(c) THEN c
    ELSE IF ~(c.length > 0) THEN Panic(c)
    ELSE IF ~InBounds(c, index) THEN Panic(c)
    ELSE LET prev == c.entries[index + 1].prev
             next == c.entries[index + 1].next
             c1 == IF index = c.head THEN [c EXCEPT !.head = next]
                   ELSE IF ~InBounds(c, prev) THEN Panic(c)
                   ELSE [c EXCEPT !.entries[prev + 1].next = next]
             c2 == IF ~Running(c1) THEN c1
                   ELSE IF index = c1.tail THEN [c1 EXCEPT !.tail = prev]
                   ELSE IF ~InBounds(c1, next) THEN Panic(c1)
                   ELSE [c1 EXCEPT !.entries[next + 1].prev = prev]
         IN  IF ~Running(c2) THEN c2 ELSE [c2 EXCEPT !.length = @ - 1]

\* touch_index that does not add back the 1 that remove took from length.
touch_index_no_recount(c, index) ==
    IF index # c.head
    THEN push_front(remove(c, index), index)
    ELSE c

touch_index(c, index) ==
    IF index # c.head
    THEN LET c1 == remove(c, index)
             c2 == IF Running(c1) THEN [c1 EXCEPT !.length = @ + 1] ELSE c1
         IN  push_front(c2, index)
    ELSE c

\* ---------------------------------------------------- the public methods
\* touch: [cache, ret].
touch(c, pred) ==
    LET r == find(c, iter_mut(c), pred, Len(c.entries))
    IN  IF r.kind = "Some" THEN [cache |-> touch_index(c, r.index), ret |-> TRUE]
        ELSE IF r.kind = "None" THEN [cache |-> c, ret |-> FALSE]
        ELSE IF r.kind = "panic" THEN [cache |-> Panic(c), ret |-> FALSE]
        ELSE [cache |-> [c EXCEPT !.status = "hung"], ret |-> FALSE]

\* The loop of lookup with the closure called once to test and once more to take
\* the result.
RECURSIVE lookup_loop_calls_twice(_, _, _, _)
lookup_loop_calls_twice(c, it, f, fuel) ==
    LET r == IterMut_next(c, it)
    IN  IF r.kind = "None"
        THEN [kind |-> "None", index |-> 0, r |-> NoResult, evals |-> <<>>]
        ELSE IF r.kind = "panic"
        THEN [kind |-> "panic", index |-> 0, r |-> NoResult, evals |-> <<>>]
        ELSE IF f[r.val] # NoResult
        THEN [kind |-> "Some", index |-> r.index, r |-> f[r.val], evals |-> <<r.index, r.index>>]
        ELSE IF fuel = 0
        THEN [kind |-> "hung", index |-> 0, r |-> NoResult, evals |-> <<r.index>>]
        ELSE [lookup_loop_calls_twice(c, r.it, f, fuel - 1) EXCEPT !.evals = <<r.index>> \o @]

\* The for loop of lookup: the first (i, r) with pred(entry) = Some(r), then break.
\* evals lists the slots of the entries pred was called on, in call order.
RECURSIVE lookup_loop(_, _, _, _)
lookup_loop(c, it, f, fuel) ==
    LET r == IterMut_next(c, it)
    IN  IF r.kind = "None"
        THEN [kind |-> "None", index |-> 0, r |-> NoResult, evals |-> <<>>]
        ELSE IF r.kind = "panic"
        THEN [kind |-> "panic", index |-> 0, r |-> NoResult, evals |-> <<>>]
        ELSE IF f[r.val] # NoResult
        THEN [kind |-> "Some", index |-> r.index, r |-> f[r.val], evals |-> <<r.index>>]
        ELSE IF fuel = 0
        THEN [kind |-> "hung", index |-> 0, r |-> NoResult, evals |-> <<r.index>>]
        ELSE [lookup_loop(c, r.it, f, fuel - 1) EXCEPT !.evals = <<r.index>> \o @]

\* lookup that returns the derived result without promoting the entry.
lookup_no_promote(c, f) ==
    LET result == lookup_loop(c, iter_mut(c), f, Len(c.entries))
    IN  IF result.kind = "None" THEN [cache |-> c, ret |-> None]
        ELSE IF result.kind = "Some" THEN [cache |-> c, ret |-> Some(result.r)]
        ELSE IF result.kind = "panic" THEN [cache |-> Panic(c), ret |-> None]
        ELSE [cache |-> [c EXCEPT !.status = "hung"], ret |-> None]

\* lookup: [cache, ret].
lookup(c, f) ==
    LET result == lookup_loop(c, iter_mut(c), f, Len(c.entries))
    IN  IF result.kind = "None" THEN [cache |-> c, ret |-> None]
        ELSE IF result.kind = "Some"
             THEN [cache |-> touch_index(c, result.index), ret |-> Some(result.r)]
        ELSE IF result.kind = "panic" THEN [cache |-> Panic(c), ret |-> None]
        ELSE [cache |-> [c EXCEPT !.status = "hung"], ret |-> None]

\* insert that gives up silently when there is no slot at all.
insert_silent_without_slot(c, C, val) ==
    LET entry == Entry(val, 0, 0)
    IN  IF C = 0 THEN c
        ELSE IF c.length = C
        THEN LET p == pop_back(c)
                 last_index == p.ret
             IN  IF ~Running(p.cache) THEN p.cache
                 ELSE push_front([p.cache EXCEPT !.entries[last_index + 1] = entry], last_index)
        ELSE IF Len(c.entries) >= C THEN Panic(c)
        ELSE LET c1 == [c EXCEPT !.entries = Append(@, entry), !.length = @ + 1]
             IN  push_front(c1, Len(c1.entries) - 1)

\* insert that forgets to count the entry it appends.
insert_no_count(c, C, val) ==
    LET entry == Entry(val, 0, 0)
    IN  IF c.length = C
        THEN LET p == pop_back(c)
                 last_index == p.ret
             IN  IF ~Running(p.cache) THEN p.cache
                 ELSE push_front([p.cache EXCEPT !.entries[last_index + 1] = entry], last_index)
        ELSE IF Len(c.entries) >= C THEN Panic(c)
        ELSE LET c1 == [c EXCEPT !.entries = Append(@, entry)]
             IN  push_front(c1, Len(c1.entries) - 1)

\* insert that, at capacity, overwrites the slot that becomes tail instead of the slot
\* that was tail.
insert_reuses_new_tail(c, C, val) ==
    LET entry == Entry(val, 0, 0)
    IN  IF c.length = C
        THEN LET p == pop_back(c)
                 last_index == p.cache.tail
             IN  IF ~Running(p.cache) THEN p.cache
                 ELSE push_front([p.cache EXCEPT !.entries[last_index + 1] = entry], p.ret)
        ELSE IF Len(c.entries) >= C THEN Panic(c)
        ELSE LET c1 == [c EXCEPT !.entries = Append(@, entry), !.length = @ + 1]
             IN  push_front(c1, Len(c1.entries) - 1)

\* insert into a cache of capacity C.
insert(c, C, val) ==
    LET entry == Entry(val, 0, 0)
    IN  IF c.length = C
        THEN LET p == pop_back(c)
                 last_index == p.ret
             IN  IF ~Running(p.cache) THEN p.cache
                 ELSE push_front([p.cache EXCEPT !.entries[last_index + 1] = entry], last_index)
        ELSE IF Len(c.entries) >= C THEN Panic(c)
        ELSE LET c1 == [c EXCEPT !.entries = Append(@, entry), !.length = @ + 1]
             IN  push_front(c1, Len(c1.entries) - 1)

\* fetch that hands out the front whether or not touch found a match.
fetch_ignores_miss(c, pred) ==
    LET t == touch(c, pred)
    IN  [cache |-> t.cache, ret |-> front_mut(t.cache)]

\* fetch: [cache, ret].
fetch(c, pred) ==
    LET t == touch(c, pred)
    IN  IF Running(t.cache) /\ t.ret THEN [cache |-> t.cache, ret |-> front_mut(t.cache)]
        ELSE [cache |-> t.cache, ret |-> None]

\* ------------------------------------------------------ sequence helpers
Min(a, b) == IF a < b THEN a ELSE b
Reverse(s) == [k \in 1..Len(s) |-> s[Len(s) + 1 - k]]
\* s without its last element
ButLast(s) == SubSeq(s, 1, Len(s) - 1)
Last(s) == s[Len(s)]
\* the last n elements of s
LastN(s, n) == SubSeq(s, Len(s) - n + 1, Len(s))
\* s without its k-th element
RemoveAt(s, k) == SubSeq(s, 1, k - 1) \o SubSeq(s, k + 1, Len(s))
\* s with its k-th element moved to the front
MoveToFront(s, k) == <<s[k]>> \o RemoveAt(s, k)

\* Position (1-based) of the first element of sequence s that is in set S; 0 if none.
FirstIn(s, S) ==
    IF \E k \in 1..Len(s) : s[k] \in S
    THEN CHOOSE k \in 1..Len(s) : s[k] \in S /\ \A j \in 1..(k - 1) : s[j] \notin S
    ELSE 0

\* The values a lookup closure yields a result for.
Accepts(f) == {x \in DOMAIN f : f[x] # NoResult}

\* arena slots in scan order (most recent first)
order(c) == Slots_of(scan(c).out)

\* the values stored in the arena, slot by slot
vals(c) == [k \in 1..Len(c.entries) |-> c.entries[k].val]

\* ---------------------------------------------------------------- actions
Set(c) ==
    /\ entries' = c.entries
    /\ head' = c.head
    /\ tail' = c.tail
    /\ length' = c.length
    /\ status' = c.status

\* The call being made: its name, len() before it, and (for touch, lookup, fetch)
\* the position in items() before it of the first entry the closure accepts.
Call(name, hit) == op' = [name |-> name, pre |-> length, hit |-> hit]

NotInsert == inserted' = <<>> /\ insertsOnly' = FALSE

\* History of recency, kept apart from the links: an insert makes the slot it wrote
\* the latest (the oldest entry leaves when the cache was full); a closure that accepts
\* an entry makes the latest accepted entry the latest.
RecencyInsert(slot) ==
    recency' = IF status' # "running" THEN recency
               ELSE <<slot>> \o (IF Len(recency) >= cap THEN ButLast(recency) ELSE recency)

RecencyTouch(S) ==
    LET held == [k \in 1..Len(recency) |->
                    IF recency[k] < Len(entries) THEN entries[recency[k] + 1].val ELSE 0]
        k == FirstIn(held, S)
    IN  recency' = IF k = 0 THEN recency ELSE MoveToFront(recency, k)

\* The plain list of the abstract cache: insert prepends the value and drops the last
\* element if the list would exceed the capacity; a closure that accepts an element
\* moves the first such element to the front; clear empties the list.
AbsInsert(l, C, val) ==
    LET l1 == <<val>> \o l
    IN  IF Len(l1) > C THEN ButLast(l1) ELSE l1

AbsTouch(l, S) ==
    LET k == FirstIn(l, S)
    IN  IF k = 0 THEN l ELSE MoveToFront(l, k)

Init ==
    /\ cap \in Caps
    /\ entries = Default.entries
    /\ head = Default.head
    /\ tail = Default.tail
    /\ length = Default.length
    /\ status = Default.status
    /\ op = [name |-> "default", pre |-> 0, hit |-> 0]
    /\ ret = None
    /\ inserted = <<>>
    /\ insertsOnly = TRUE
    /\ recency = <<>>
    /\ abstract = <<>>

InsertV(val) ==
    /\ status = "running"
    /\ Set(insert(self, cap, val))
    /\ Call("insert", 0)
    /\ ret' = None
    /\ IF insertsOnly /\ Len(inserted) < MaxInserts
       THEN inserted' = Append(inserted, val) /\ insertsOnly' = TRUE
       ELSE NotInsert
    /\ RecencyInsert(head')
    /\ abstract' = AbsInsert(abstract, cap, val)
    /\ UNCHANGED cap

Insert == \E val \in Values : InsertV(val)

TouchP(pred) ==
    /\ status = "running"
    /\ LET t == touch(self, pred) IN Set(t.cache) /\ ret' = t.ret
    /\ Call("touch", FirstIn(items(self).out, pred))
    /\ NotInsert
    /\ RecencyTouch(pred)
    /\ abstract' = AbsTouch(abstract, pred)
    /\ UNCHANGED cap

Touch == \E pred \in Preds : TouchP(pred)

LookupF(f) ==
    /\ status = "running"
    /\ LET t == lookup(self, f) IN Set(t.cache) /\ ret' = t.ret
    /\ Call("lookup", FirstIn(items(self).out, Accepts(f)))
    /\ NotInsert
    /\ RecencyTouch(Accepts(f))
    /\ abstract' = AbsTouch(abstract, Accepts(f))
    /\ UNCHANGED cap

Lookup == \E f \in LookupFns : LookupF(f)

FetchP(pred) ==
    /\ status = "running"
    /\ LET t == fetch(self, pred) IN Set(t.cache) /\ ret' = t.ret
    /\ Call("fetch", FirstIn(items(self).out, pred))
    /\ NotInsert
    /\ RecencyTouch(pred)
    /\ abstract' = AbsTouch(abstract, pred)
    /\ UNCHANGED cap

Fetch == \E pred \in Preds : FetchP(pred)

Clear ==
    /\ status = "running"
    /\ Set(clear(self))
    /\ Call("clear", 0)
    /\ ret' = None
    /\ NotInsert
    /\ recency' = <<>>
    /\ abstract' = <<>>
    /\ UNCHANGED cap

Front ==
    /\ status = "running"
    /\ ret' = front(self)
    /\ Call("front", 0)
    /\ NotInsert
    /\ UNCHANGED <<cap, entries, head, tail, length, status, recency, abstract>>

FrontMut ==
    /\ status = "running"
    /\ ret' = front_mut(self)
    /\ Call("front_mut", 0)
    /\ NotInsert
    /\ UNCHANGED <<cap, entries, head, tail, length, status, recency, abstract>>

Items ==
    /\ status = "running"
    /\ LET r == items(self) IN ret' = r.out /\ status' = r.status
    /\ Call("items", 0)
    /\ NotInsert
    /\ UNCHANGED <<cap, entries, head, tail, length, recency, abstract>>

LenCall ==
    /\ status = "running"
    /\ ret' = len(self)
    /\ Call("len", 0)
    /\ NotInsert
    /\ UNCHANGED <<cap, entries, head, tail, length, status, recency, abstract>>

IsEmpty ==
    /\ status = "running"
    /\ ret' = is_empty(self)
    /\ Call("is_empty", 0)
    /\ NotInsert
    /\ UNCHANGED <<cap, entries, head, tail, length, status, recency, abstract>>

Next ==
    \/ Insert
    \/ Touch
    \/ Lookup
    \/ Fetch
    \/ Clear
    \/ Front
    \/ FrontMut
    \/ Items
    \/ LenCall
    \/ IsEmpty

Spec == Init /\ [][Next]_vars

\* ---------------------------------------------------------------- the capacity-4 scenario
\* The test cache: LRUCache<i32, 4>.
TestCapacity == 4

\* The values the scenario inserts, in order.
ScenarioInserts == <<1, 2, 3, 4, 5>>
ScenarioValues == {ScenarioInserts[i] : i \in 1..Len(ScenarioInserts)}

\* |x| if *x == v { Some(*x * 10) } else { None }
ScenarioLookupFn(v) == [x \in ScenarioValues |-> IF x = v THEN x * 10 ELSE NoResult]

ScenarioInit ==
    /\ cap = TestCapacity
    /\ entries = Default.entries
    /\ head = Default.head
    /\ tail = Default.tail
    /\ length = Default.length
    /\ status = Default.status
    /\ op = [name |-> "default", pre |-> 0, hit |-> 0]
    /\ ret = None
    /\ inserted = <<>>
    /\ insertsOnly = TRUE
    /\ recency = <<>>
    /\ abstract = <<>>

\* up to five inserts of any of the values on the fresh cache ...
ScenarioInsert ==
    /\ insertsOnly /\ Len(inserted) < Len(ScenarioInserts)
    /\ \E val \in ScenarioValues : InsertV(val)

\* ... then one touch with an equality closure ...
ScenarioTouch ==
    /\ insertsOnly
    /\ \E v \in ScenarioValues : TouchP({v})

\* ... then one lookup with an equality closure deriving a result.
ScenarioLookup ==
    /\ op.name = "touch"
    /\ \E v \in ScenarioValues : LookupF(ScenarioLookupFn(v))

ScenarioNext ==
    \/ ScenarioInsert
    \/ ScenarioTouch
    \/ ScenarioLookup

SpecScenario == ScenarioInit /\ [][ScenarioNext]_vars

\* ----------------------------------------------------------------- claims
\* C1: from a fresh cache of capacity C >= 1, after any n insert calls (and nothing
\* else) the cache is running and len() = min(n, C).
C1_LenIsMinInsertsCap ==
    (insertsOnly /\ cap >= 1) =>
        /\ status = "running"
        /\ len(self) = Min(Len(inserted), cap)

\* C1 witness: more inserts than the capacity holds, into a cache of capacity >= 2.
C1_Witness ==
    /\ insertsOnly /\ cap >= 2 /\ Len(inserted) > cap
    /\ op.name = "insert" /\ len(self) = cap

\* C2: from a fresh cache of capacity C >= 1, after inserting v1..vn (and nothing
\* else) items() is the last min(n, C) of them, latest first.
C2_ItemsAreLastInsertsReversed ==
    (insertsOnly /\ cap >= 1) =>
        items(self) = [out |-> Reverse(LastN(inserted, Min(Len(inserted), cap))),
                       status |-> "running"]

\* C2 witness: C + 1 inserts into a cache of capacity C >= 2, the first one evicted.
C2_Witness ==
    /\ insertsOnly /\ cap >= 2 /\ Len(inserted) = cap + 1
    /\ inserted[1] # inserted[2]
    /\ items(self).out = Reverse(SubSeq(inserted, 2, cap + 1))

\* C3: in a full cache (len() = C >= 1) the last entry of items() is the one whose
\* latest insert or promotion is the oldest, and insert(v) overwrites exactly that
\* entry: items() becomes <<v>> followed by the old items() without its last element,
\* the same holds of the arena slots, and no other slot's value changes.
C3_InsertEvictsLeastRecent ==
    (status = "running" /\ cap >= 1 /\ len(self) = cap) =>
        /\ order(self) # <<>>
        /\ Last(order(self)) = Last(recency)
        /\ \A v \in Values :
              LET c2 == insert(self, cap, v)
                  lru == Last(order(self))
              IN  /\ c2.status = "running"
                  /\ len(c2) = cap
                  /\ items(c2) = [out |-> <<v>> \o ButLast(items(self).out),
                                  status |-> "running"]
                  /\ order(c2) = <<lru>> \o ButLast(order(self))
                  /\ vals(c2) = [vals(self) EXCEPT ![lru + 1] = v]

\* C3 witness: an insert into a full cache of capacity >= 3 has just happened, in a
\* run that also made other calls, and it overwrote a slot other than the first.
C3_Witness ==
    /\ op.name = "insert" /\ op.pre = cap /\ cap >= 3
    /\ status = "running" /\ ~insertsOnly
    /\ head # 0 /\ order(self) = recency

\* C4: touch(pred) with some entry accepted returns true and moves the first accepted
\* entry (most recent first) to the front; the other entries keep their relative
\* order, and no stored value and not len() changes.
C4_TouchPromotesFirstMatch ==
    \A pred \in Preds :
        LET k == FirstIn(items(self).out, pred)
            t == touch(self, pred)
        IN  (status = "running" /\ k # 0) =>
                /\ t.ret = TRUE
                /\ t.cache.status = "running"
                /\ items(t.cache) = [out |-> MoveToFront(items(self).out, k),
                                     status |-> "running"]
                /\ order(t.cache) = MoveToFront(order(self), k)
                /\ vals(t.cache) = vals(self)
                /\ len(t.cache) = len(self)

\* C4 witness: a touch has just promoted an entry that was neither first nor last.
C4_Witness ==
    /\ op.name = "touch" /\ ret = TRUE /\ status = "running"
    /\ op.hit >= 2 /\ op.hit < op.pre

\* C5: touch(pred) with no entry accepted returns false and changes nothing at all.
C5_TouchMissChangesNothing ==
    \A pred \in Preds :
        (status = "running" /\ FirstIn(items(self).out, pred) = 0) =>
            touch(self, pred) = [cache |-> self, ret |-> FALSE]

\* C5 witness: a touch has just missed on a cache holding at least two entries.
C5_Witness ==
    /\ op.name = "touch" /\ ret = FALSE /\ status = "running"
    /\ op.hit = 0 /\ op.pre >= 2 /\ len(self) = op.pre


\* C6: lookup(f) returns Some(r), r being f's result on the first entry (most recent
\* first) f yields a result for, and leaves the cache exactly as touch leaves it when
\* it matches that entry; when f yields nothing, it returns None and changes nothing.
C6_LookupIsTouchWithResult ==
    \A f \in LookupFns :
        LET it == items(self).out
            k == FirstIn(it, Accepts(f))
            l == lookup(self, f)
            t == touch(self, Accepts(f))
        IN  status = "running" =>
                /\ k # 0 => /\ l.ret = Some(f[it[k]])
                            /\ t.ret = TRUE
                            /\ l.cache = t.cache
                            /\ l.cache.status = "running"
                            /\ order(l.cache) = MoveToFront(order(self), k)
                            /\ items(l.cache).out = MoveToFront(it, k)
                /\ k = 0 => l = [cache |-> self, ret |-> None]

\* C6 witness: a lookup has just returned the result derived from an entry that was
\* not at the front, and that entry is at the front now.
C6_Witness ==
    /\ op.name = "lookup" /\ op.hit >= 2 /\ status = "running"
    /\ ret = Some(Head(items(self).out) * Factor)

\* C7: fetch(pred) leaves the cache as touch(pred) does; on a match it returns a
\* handle to the slot now at the front, which holds the first accepted value; on a
\* miss it returns None and changes nothing.
C7_FetchIsTouchThenFrontMut ==
    \A pred \in Preds :
        LET it == items(self).out
            k == FirstIn(it, pred)
            g == fetch(self, pred)
        IN  status = "running" =>
                /\ g.cache = touch(self, pred).cache
                /\ k # 0 => /\ g.cache.status = "running"
                            /\ g.ret = Some([slot |-> order(self)[k], val |-> it[k]])
                            /\ g.ret = Some([slot |-> Head(order(g.cache)),
                                             val |-> Head(items(g.cache).out)])
                            /\ order(g.cache) = MoveToFront(order(self), k)
                /\ k = 0 => g = [cache |-> self, ret |-> None]

\* C7 witness: a fetch has just promoted an entry that was not at the front and
\* returned the handle to it.
C7_Witness ==
    /\ op.name = "fetch" /\ op.hit >= 2 /\ status = "running"
    /\ ret = Some([slot |-> head, val |-> Head(items(self).out)])

\* C8 (state part): front() and front_mut() are None exactly when the cache is empty
\* (so after clear); otherwise they give the first element of items(), the entry
\* latest inserted or promoted; front() is v right after insert(v).
C8_FrontIsFirstItem ==
    status = "running" =>
        /\ front(self) = None <=> is_empty(self)
        /\ front_mut(self) = None <=> is_empty(self)
        /\ ~is_empty(self) =>
              /\ front(self) = Some(Head(items(self).out))
              /\ front_mut(self) = Some([slot |-> Head(order(self)),
                                         val |-> Head(items(self).out)])
              /\ Head(order(self)) = Head(recency)
        /\ front(clear(self)) = None
        /\ front_mut(clear(self)) = None
        /\ cap >= 1 => \A v \in Values : front(insert(self, cap, v)) = Some(v)
        /\ \A pred \in Preds :
              LET k == FirstIn(items(self).out, pred)
              IN  k # 0 => front(touch(self, pred).cache) = Some(items(self).out[k])

\* C8 (step part): a call of front() returns front of the cache and changes no state.
C8_FrontCallChangesNothing ==
    op'.name = "front" => (self' = self /\ cap' = cap /\ ret' = front(self))

\* C8: front() and front_mut() are absent exactly when the cache is empty (also after
\* clear) and otherwise give the value of the entry latest inserted or promoted, the
\* first element of items(), so v right after insert(v); and a call of front()
\* changes no state.
C8_Front == [](C8_FrontIsFirstItem) /\ [][C8_FrontCallChangesNothing]_vars

\* C8 witness: front() has just returned the value of an entry that a promotion, not
\* the latest insert, brought to the front of a cache with room left.
C8_Witness ==
    /\ op.name = "front" /\ status = "running"
    /\ len(self) >= 2 /\ len(self) < cap /\ head # Len(entries) - 1
    /\ ret = Some(Head(items(self).out))

\* C9: clear() gives the state of a freshly constructed cache (so every later call
\* behaves as on a fresh cache): arena empty, head = tail = length = 0, items() empty,
\* front() absent; a second clear() changes nothing.
C9_ClearGivesFreshCache ==
    /\ status = "running" =>
          /\ clear(self) = Default
          /\ clear(clear(self)) = clear(self)
          /\ len(clear(self)) = 0
          /\ is_empty(clear(self))
          /\ items(clear(self)) = [out |-> <<>>, status |-> "running"]
          /\ front(clear(self)) = None
    /\ op.name = "clear" => self = Default

\* C9 witness: clear() has just emptied a cache that held at least two entries.
C9_Witness ==
    /\ op.name = "clear" /\ op.pre >= 2
    /\ self = Default

\* C10: with capacity 0 insert(v) panics; it never returns normally, and the cache
\* never holds an entry.
C10_InsertWithoutSlotPanics ==
    cap = 0 =>
        /\ len(self) = 0
        /\ entries = <<>>
        /\ status = "running" =>
              \A v \in Values : insert(self, cap, v) = Panic(self)
        /\ op.name = "insert" => status = "panicked"

\* C10 witness: insert has just been called on a cache of capacity 0 and panicked.
C10_Witness ==
    /\ cap = 0 /\ op.name = "insert"
    /\ status = "panicked" /\ len(self) = 0

\* C11: when several entries satisfy the closure (equal values are separate entries),
\* touch, lookup and fetch promote only the most recent of them; every other entry,
\* the other matching ones included, stays in the list with its value and keeps its
\* place relative to the rest.
C11_OnlyFirstOfSeveralPromoted ==
    \A pred \in Preds :
        LET it == items(self).out
            ord == order(self)
            k == FirstIn(it, pred)
            several == Cardinality({j \in 1..Len(it) : it[j] \in pred}) >= 2
            after(c) == /\ c.status = "running"
                        /\ order(c) = MoveToFront(ord, k)
                        /\ SubSeq(order(c), 2, Len(ord)) = RemoveAt(ord, k)
                        /\ items(c).out = MoveToFront(it, k)
                        /\ vals(c) = vals(self)
                        /\ len(c) = len(self)
        IN  (status = "running" /\ several) =>
                /\ after(touch(self, pred).cache)
                /\ after(lookup(self, LookupFn(pred, Factor)).cache)
                /\ after(fetch(self, pred).cache)

\* C11 witness: a touch has just promoted an entry that was not at the front while an
\* older entry holds the same value, so it matched too, and stays behind.
C11_Witness ==
    /\ op.name = "touch" /\ ret = TRUE /\ status = "running" /\ op.hit >= 2
    /\ \E j \in (op.hit + 1)..len(self) : items(self).out[j] = items(self).out[1]

\* C12: on a fresh capacity-4 cache, inserting 1, 2, 3, 4 gives items() = [4, 3, 2, 1];
\* inserting 5 then gives [5, 4, 3, 2]; touch(== 3) then gives [3, 5, 4, 2]; and
\* lookup(== 2, deriving x * 10) then returns 20 and gives items() = [2, 3, 5, 4].
C12_Scenario ==
    /\ (cap = 4 /\ inserted = <<1, 2, 3, 4>>) => items(self) = [out |-> <<4, 3, 2, 1>>, status |-> "running"]
    /\ (cap = 4 /\ inserted = <<1, 2, 3, 4, 5>>) =>
          LET t == touch(self, {3})
              l == lookup(t.cache, ScenarioLookupFn(2))
          IN  /\ items(self) = [out |-> <<5, 4, 3, 2>>, status |-> "running"]
              /\ t.ret = TRUE
              /\ items(t.cache) = [out |-> <<3, 5, 4, 2>>, status |-> "running"]
              /\ l.ret = Some(20)
              /\ items(l.cache) = [out |-> <<2, 3, 5, 4>>, status |-> "running"]

\* C12 witness: the scenario has run to its end: the lookup found 2 in the last place
\* of [3, 5, 4, 2] and returned 20.
C12_Witness ==
    /\ cap = 4 /\ op = [name |-> "lookup", pre |-> 4, hit |-> 4]
    /\ ret = Some(20) /\ status = "running"
    /\ items(self).out = <<2, 3, 5, 4>>
    /\ vals(self) = <<5, 2, 3, 4>>

\* The slots met by following next from slot pos for n nodes, pos included; the walk
\* is cut short at a slot outside the arena.
RECURSIVE chain(_, _, _)
chain(c, pos, n) ==
    IF n = 0 \/ ~InBounds(c, pos) THEN <<>>
    ELSE <<pos>> \o chain(c, c.entries[pos + 1].next, n - 1)

NoRepeats(s) == \A i, j \in 1..Len(s) : s[i] = s[j] => i = j

\* C13: with capacity at least 1, in every reachable state following next from head
\* reaches tail after exactly length nodes and visits no index twice on the way,
\* 0 <= length <= capacity, and length = 1 implies head = tail.
C13_ListWellFormed ==
    cap >= 1 =>
        LET walk == chain(self, head, length)
        IN  /\ status = "running"
            /\ length >= 0 /\ length <= cap
            /\ Len(walk) = length
            /\ NoRepeats(walk)
            /\ length > 0 => walk[length] = tail
            /\ length = 1 => head = tail

\* C13 witness: three entries, and a touch has just moved the one that was tail to the
\* front, so head, tail and the links between them have all been rewritten.
C13_Witness ==
    /\ cap >= 1 /\ length = 3 /\ status = "running"
    /\ op = [name |-> "touch", pre |-> 3, hit |-> 3] /\ ret = TRUE
    /\ chain(self, head, length) = order(self)

\* C14: in every reachable state with length > 1, every node X of the list other than
\* head and tail has entries[X.next].prev = X and entries[X.prev].next = X.
C14_LinksMutuallyConsistent ==
    length > 1 =>
        LET walk == chain(self, head, length)
        IN  \A i \in 1..Len(walk) :
                LET X == walk[i]
                    e == entries[X + 1]
                IN  (X # head /\ X # tail) =>
                        /\ InBounds(self, e.next) /\ entries[e.next + 1].prev = X
                        /\ InBounds(self, e.prev) /\ entries[e.prev + 1].next = X

\* C14 witness: three entries after the middle one was promoted: the node now in the
\* middle got a new prev and a new next in the same call.
C14_Witness ==
    /\ length = 3 /\ status = "running"
    /\ op = [name |-> "touch", pre |-> 3, hit |-> 2] /\ ret = TRUE
    /\ LET X == order(self)[2]
       IN  X # head /\ X # tail /\ entries[X + 1].prev = head /\ entries[X + 1].next = tail

\* C15: in every reachable state the occupied arena slots are exactly 0..length-1 and
\* are exactly the indices in the list; an insert below capacity puts the value in the
\* new slot whose index is the old length, and an insert at capacity writes the value
\* into the slot that was tail; the value of every other slot is unchanged.
C15_SlotsContiguousAndReusedByEviction ==
    /\ Len(entries) = length
    /\ {chain(self, head, length)[i] : i \in 1..Len(chain(self, head, length))} = 0..(length - 1)
    /\ \A v \in Values :
          LET c == insert(self, cap, v)
          IN  /\ (status = "running" /\ length < cap) =>
                    /\ c.status = "running"
                    /\ vals(c) = Append(vals(self), v)
                    /\ c.head = length
              /\ (status = "running" /\ length = cap /\ cap >= 1) =>
                    /\ c.status = "running"
                    /\ vals(c) = [vals(self) EXCEPT ![tail + 1] = v]
                    /\ c.head = tail

\* C15 witness: a full cache of three whose tail was slot 1 (an earlier promotion or
\* eviction changed the order) has just taken an insert: slot 1 was rewritten and is
\* now head.
C15_Witness ==
    /\ cap = 3 /\ op = [name |-> "insert", pre |-> 3, hit |-> 0]
    /\ status = "running" /\ length = 3 /\ head = 1
    /\ Len(entries) = 3

\* how many times v occurs in the sequence s
Count(s, v) == Cardinality({i \in 1..Len(s) : s[i] = v})

SameMultiset(s, t) == Len(s) = Len(t) /\ \A v \in Values : Count(s, v) = Count(t, v)

\* C16: in every reachable state, every call of touch, lookup or fetch leaves len() and
\* the multiset of the values in items() as they were; and when the entry the closure
\* accepts first is already at head, head, tail and every prev and next link are left
\* unchanged (the whole cache is).
C16_PromotionKeepsCountAndValues ==
    \A pred \in Preds :
        LET k == FirstIn(items(self).out, pred)
            kept(c) == /\ c.status = "running"
                       /\ len(c) = len(self)
                       /\ SameMultiset(items(c).out, items(self).out)
                       /\ k = 1 => c = self
        IN  status = "running" =>
                /\ kept(touch(self, pred).cache)
                /\ kept(lookup(self, LookupFn(pred, Factor)).cache)
                /\ kept(fetch(self, pred).cache)

\* C16 witness: a fetch found its entry at the head of a three-entry list that earlier
\* calls had reordered, and returned it.
C16_Witness ==
    /\ op = [name |-> "fetch", pre |-> 3, hit |-> 1] /\ ret # None
    /\ status = "running" /\ length = 3 /\ order(self) # <<2, 1, 0>>

\* C17: during one scan of touch, lookup or fetch the closure is called on the entries
\* most recent first, at most once per entry, and on no entry after the first one it
\* accepts; on an empty cache it is never called and the call reports not-found.
C17_ClosureCalledInOrderUntilFirstMatch ==
    \A pred \in Preds :
        LET ord == order(self)
            k == FirstIn(items(self).out, pred)
            upto == SubSeq(ord, 1, IF k = 0 THEN Len(ord) ELSE k)
            byFind == find(self, iter_mut(self), pred, Len(entries))
            byLoop == lookup_loop(self, iter_mut(self), LookupFn(pred, Factor), Len(entries))
        IN  status = "running" =>
                /\ byFind.evals = upto /\ NoRepeats(byFind.evals)
                /\ byLoop.evals = upto /\ NoRepeats(byLoop.evals)
                /\ byFind.kind = (IF k = 0 THEN "None" ELSE "Some")
                /\ byLoop.kind = (IF k = 0 THEN "None" ELSE "Some")
                /\ is_empty(self) =>
                      /\ byFind.evals = <<>> /\ byLoop.evals = <<>>
                      /\ touch(self, pred).ret = FALSE
                      /\ lookup(self, LookupFn(pred, Factor)).ret = None
                      /\ fetch(self, pred).ret = None

\* C17 witness: a lookup over three entries stopped at the second one: the closure was
\* called on the first two and never on the third.
C17_Witness ==
    /\ op = [name |-> "lookup", pre |-> 3, hit |-> 2] /\ ret # None
    /\ status = "running" /\ length = 3

\* C18: every scan terminates: in any reachable state the traversal used by items,
\* touch, lookup and fetch (start at head, follow next, stop after yielding tail) ends
\* after yielding exactly length entries when no match stops it earlier, so after at
\* most capacity steps, and it never yields an entry twice or loops.
C18_ScansTerminate ==
    LET s == scan(self)
        none == find(self, iter_mut(self), {}, Len(entries))
        noneLoop == lookup_loop(self, iter_mut(self), LookupFn({}, Factor), Len(entries))
    IN  /\ s.status = "running"
        /\ Len(s.out) = length /\ length <= cap
        /\ NoRepeats(Slots_of(s.out))
        /\ none.kind = "None" /\ none.evals = Slots_of(s.out)
        /\ noneLoop.kind = "None" /\ noneLoop.evals = Slots_of(s.out)
        /\ \A pred \in Preds :
              /\ find(self, iter_mut(self), pred, Len(entries)).kind \in {"None", "Some"}
              /\ Len(find(self, iter_mut(self), pred, Len(entries)).evals) <= length
              /\ lookup_loop(self, iter_mut(self), LookupFn(pred, Factor), Len(entries)).kind
                    \in {"None", "Some"}
              /\ Len(lookup_loop(self, iter_mut(self), LookupFn(pred, Factor), Len(entries)).evals)
                    <= length
        /\ op.name = "items" => (status = "running" /\ Len(ret) = length)

\* C18 witness: items() returned all three entries of a list whose tail still carries
\* a next link left from before an eviction, pointing back at the head: only the stop
\* after tail ends the traversal.
C18_Witness ==
    /\ op.name = "items" /\ status = "running" /\ length = 3 /\ Len(ret) = 3
    /\ entries[tail + 1].next = head

\* C19: the cache refines an abstract recency list: for capacity at least 1, after every
\* sequence of insert, touch, lookup, fetch and clear, items() equals the list got by
\* running the same calls on a plain list where insert prepends the value and drops
\* the last element if the list would exceed the capacity, a matching touch, lookup
\* or fetch moves the first matching element to the front, and clear empties the list.
C19_RefinesAbstractList ==
    cap >= 1 => items(self) = [out |-> abstract, status |-> "running"]

\* C19 witness: a full cache whose order an earlier promotion had already changed has
\* just promoted its last entry by fetch; the plain list went through the same calls.
C19_Witness ==
    /\ cap = 3 /\ op = [name |-> "fetch", pre |-> 3, hit |-> 3] /\ ret # None
    /\ abstract = items(self).out /\ Len(abstract) = 3
    /\ order(self) = <<1, 0, 2>>

\* C20: with capacity at least 1 no sequence of insert, touch, lookup, fetch, clear,
\* front and items aborts: head, tail and every prev or next link an operation follows
\* are below the number of occupied slots, and the assertion length > 0 in remove holds
\* whenever remove is called, so every call made in any reachable state returns.
C20_NoAbort ==
    cap >= 1 =>
        /\ status = "running"
        /\ length > 0 => (InBounds(self, head) /\ InBounds(self, tail))
        /\ \A i \in 1..Len(chain(self, head, length)) :
              LET X == chain(self, head, length)[i]
              IN  /\ X # tail => InBounds(self, entries[X + 1].next)
                  /\ X # head => InBounds(self, entries[X + 1].prev)
        /\ \A val \in Values : insert(self, cap, val).status = "running"
        /\ \A pred \in Preds :
              /\ touch(self, pred).cache.status = "running"
              /\ lookup(self, LookupFn(pred, Factor)).cache.status = "running"
              /\ fetch(self, pred).cache.status = "running"
              /\ \A k \in 1..length :
                    LET r == remove(self, order(self)[k])
                    IN  r.status = "running" /\ push_front([r EXCEPT !.length = @ + 1],
                                                           order(self)[k]).status = "running"
        /\ clear(self).status = "running"
        /\ items(self).status = "running"

\* C20 witness: a capacity-1 cache that was full has taken another insert: pop_back read
\* the prev link of the only entry, which nothing ever set, and the call returned.
C20_Witness ==
    /\ cap = 1 /\ op = [name |-> "insert", pre |-> 1, hit |-> 0]
    /\ status = "running" /\ length = 1 /\ head = 0 /\ tail = 0
    /\ Len(entries) = 1

====
